---- MODULE Spec2Model ----
(***************************************************************************)
(* The window-arrangement core of komorebi: one Workspace, its ring of     *)
(* tiled containers and its three side placements (monocle container,     *)
(* maximized window, floating windows), as implemented in                  *)
(* src/komorebi/src/workspace.rs.                                          *)
(*                                                                         *)
(* Indices are 0-based as in the source; Option<T> is a sequence of        *)
(* length 0 (None) or 1 (Some).  Every Workspace method is an operator     *)
(* from a workspace record (and the method's arguments) to a record        *)
(* [ws, res]: the workspace after the call and "Ok", "Err" or "Panic".     *)
(***************************************************************************)
EXTENDS Integers, Sequences, FiniteSets, TLC

VARIABLES
    containers,                    \* Ring<Container>: the tiled set
    monocle_container,             \* Option<Container>
    monocle_container_restore_idx, \* Option<usize>
    maximized_window,              \* Option<Window>
    maximized_window_restore_idx,  \* Option<usize>
    floating_windows,              \* Vec<Window>
    resize_dimensions,             \* Vec<Option<Rect>>; workspace.rs only ever writes None entries
    layout,                        \* Layout
    panicked                       \* a call has panicked: the process is gone

\* Number of distinct window handles the platform hands out.
MaxWindows == 3
\* Cap on the length of the tiled ring and of resize_dimensions.
MaxContainers == 3
\* the longest tiled ring, and the most windows in one container, of the runs
\* that exercise padding
MaxPaddedContainers == 4
MaxPaddedWindows == 1

Hwnds == 1..MaxWindows

None == <<>>
Some(x) == <<x>>
IsSome(o) == Len(o) = 1
IsNone(o) == Len(o) = 0
Unwrap(o) == o[1]

Max(a, b) == IF a >= b THEN a ELSE b
Min(a, b) == IF a <= b THEN a ELSE b

----------------------------------------------------------------------------
(* std Vec / VecDeque, 0-based.  Callers check the panicking preconditions. *)

At(s, i) == s[i + 1]
\* VecDeque::get / Vec::get
Get(s, i) == IF i < Len(s) THEN Some(s[i + 1]) ELSE None
\* remove(i), i < len
RemoveAt(s, i) == SubSeq(s, 1, i) \o SubSeq(s, i + 2, Len(s))
\* insert(i, x), i <= len
InsertAt(s, i, x) == SubSeq(s, 1, i) \o <<x>> \o SubSeq(s, i + 1, Len(s))
\* VecDeque::resize(n, x): truncates or appends clones of x
ResizeTo(s, n, x) ==
    IF n <= Len(s) THEN SubSeq(s, 1, n)
    ELSE s \o [k \in 1..(n - Len(s)) |-> x]
\* iter().position(|e| e == x)
Position(s, x) ==
    IF \E k \in 1..Len(s) : s[k] = x
    THEN Some((CHOOSE k \in 1..Len(s) : s[k] = x /\ \A j \in 1..(k - 1) : s[j] # x) - 1)
    ELSE None
\* the index a `for (i, e) in s.iter().enumerate() { if e == x { idx = Some(i) } }` scan ends with
LastPosition(s, x) ==
    IF \E k \in 1..Len(s) : s[k] = x
    THEN Some((CHOOSE k \in 1..Len(s) : s[k] = x /\ \A j \in (k + 1)..Len(s) : s[j] # x) - 1)
    ELSE None
SeqSet(s) == {s[k] : k \in 1..Len(s)}

----------------------------------------------------------------------------
(* Ring<T>: an ordered sequence and a focus cursor.                         *)

RingDefault == [elements |-> <<>>, focused |-> 0]

\* Ring::focused(): the element under the cursor, if the cursor is in range
RingFocused(ring) == Get(ring.elements, ring.focused)

\* What Ring::focus does with an index past the end: "noop" or "clamp".
FocusPastEnd == "noop"

\* Ring::focus(idx): sets the cursor; an index past the end is refused, either
\* by leaving the cursor alone or by clamping it, whichever the ring was built to do.
RingFocus(ring, idx) ==
    IF idx < Len(ring.elements) THEN [ring EXCEPT !.focused = idx]
    ELSE IF FocusPastEnd = "noop" THEN ring
    ELSE [ring EXCEPT !.focused = Max(Len(ring.elements) - 1, 0)]

\* Ring::remove(idx): removing the focused element moves the cursor back by one
\* (never before the start); any other removal only re-clamps it.
RingRemove(ring, idx) ==
    LET rest == RemoveAt(ring.elements, idx)
    IN  [elements |-> rest,
         focused  |-> IF idx = ring.focused THEN Max(idx - 1, 0)
                      ELSE Max(Min(ring.focused, Len(rest) - 1), 0)]

\* Ring::swap(i, j), both in range
RingSwap(ring, i, j) ==
    [ring EXCEPT !.elements = [ring.elements EXCEPT ![i + 1] = ring.elements[j + 1],
                                                    ![j + 1] = ring.elements[i + 1]]]

----------------------------------------------------------------------------
(* Container: an id and a Ring<Window>.  Ids are compared only for         *)
(* equality: id 0 stands for an id no other live container has (every      *)
(* Container::default() draws a fresh one); the clones VecDeque::resize     *)
(* appends share one id, written k >= 1.                                    *)

ContainerDefault(id) == [id |-> id, windows |-> RingDefault]

Windows(c) == c.windows.elements
IsEmptyContainer(c) == Len(Windows(c)) = 0

\* Container::contains_window
ContainerContainsWindow(c, hwnd) == hwnd \in SeqSet(Windows(c))

\* Container::add_window: append and focus the new window
AddWindow(c, w) ==
    [c EXCEPT !.windows = [elements |-> Append(Windows(c), w),
                           focused  |-> Len(Windows(c))]]

\* Container::remove_window_by_idx -> (container, Option<Window>)
RemoveWindowByIdx(c, idx) ==
    IF idx < Len(Windows(c))
    THEN [c |-> [c EXCEPT !.windows = RingRemove(c.windows, idx)],
          w |-> Some(At(Windows(c), idx))]
    ELSE [c |-> c, w |-> None]

\* Container::remove_focused_window -> (container, Option<Window>)
RemoveFocusedWindow(c) == RemoveWindowByIdx(c, c.windows.focused)

\* Container::focused_window
FocusedWindow(c) == RingFocused(c.windows)

----------------------------------------------------------------------------
(* Workspace                                                               *)

R(ws, res) == [ws |-> ws, res |-> res]

\* Workspace::containers(): the VecDeque behind the ring
Elements(ws) == ws.containers.elements
\* Workspace::focused_container_idx()
focused_container_idx(ws) == ws.containers.focused
\* Workspace::focused_container()
focused_container(ws) == RingFocused(ws.containers)

\* containers_mut().remove(idx) / insert(idx, c) / push_back(c): the deque is
\* edited in place, the ring's cursor is not touched
WithElements(ws, elems) == [ws EXCEPT !.containers.elements = elems]
SetContainer(ws, idx, c) == WithElements(ws, [Elements(ws) EXCEPT ![idx + 1] = c])

focus_container(ws, idx) == [ws EXCEPT !.containers = RingFocus(ws.containers, idx)]

focus_previous_container(ws) ==
    LET focused_idx == focused_container_idx(ws)
    IN  IF focused_idx # 0 THEN focus_container(ws, focused_idx - 1) ELSE ws

\* called right after a push_back, so len() - 1 cannot underflow
focus_last_container(ws) == focus_container(ws, Len(Elements(ws)) - 1)

add_container(ws, container) ==
    R(focus_last_container(WithElements(ws, Append(Elements(ws), container))), "Ok")

\* -> (workspace, Option<Container>)
remove_container_by_idx(ws, idx) ==
    LET ws1 == IF idx < Len(ws.resize_dimensions)
               THEN [ws EXCEPT !.resize_dimensions = RemoveAt(ws.resize_dimensions, idx)]
               ELSE ws
    IN  IF idx < Len(Elements(ws1))
        THEN [ws |-> WithElements(ws1, RemoveAt(Elements(ws1), idx)),
              c  |-> Some(At(Elements(ws1), idx))]
        ELSE [ws |-> ws1, c |-> None]

remove_focused_container(ws) ==
    LET r == remove_container_by_idx(ws, focused_container_idx(ws))
    IN  [ws |-> focus_previous_container(r.ws), c |-> r.c]

remove_container(ws, idx) ==
    LET r == remove_container_by_idx(ws, idx)
    IN  [ws |-> focus_previous_container(r.ws), c |-> r.c]

\* the last tiled container holding hwnd (the scan does not stop at the first)
container_idx_for_window(ws, hwnd) ==
    LET hits == {i \in 0..(Len(Elements(ws)) - 1) :
                    ContainerContainsWindow(At(Elements(ws), i), hwnd)}
    IN  IF hits = {} THEN None ELSE Some(CHOOSE i \in hits : \A j \in hits : j <= i)

\* remove_window clearing an emptied monocle container without clearing its
\* restore index
remove_window_keeping_restore_idx(ws, hwnd) ==
    IF hwnd \in SeqSet(ws.floating_windows)
    THEN R([ws EXCEPT !.floating_windows = SelectSeq(@, LAMBDA w : w # hwnd)], "Ok")
    ELSE IF IsSome(ws.monocle_container)
            /\ IsSome(Position(Windows(Unwrap(ws.monocle_container)), hwnd))
    THEN LET window_idx == Unwrap(Position(Windows(Unwrap(ws.monocle_container)), hwnd))
             rm == RemoveWindowByIdx(Unwrap(ws.monocle_container), window_idx)
         IN  IF IsEmptyContainer(rm.c)
             THEN R([ws EXCEPT !.monocle_container = None], "Ok")
             ELSE R([ws EXCEPT !.monocle_container = Some(rm.c)], "Ok")
    ELSE IF ws.maximized_window = Some(hwnd)
    THEN R([ws EXCEPT !.maximized_window = None,
                      !.maximized_window_restore_idx = None], "Ok")
    ELSE IF IsNone(container_idx_for_window(ws, hwnd))
    THEN R(ws, "Err")
    ELSE LET container_idx == Unwrap(container_idx_for_window(ws, hwnd))
             container == At(Elements(ws), container_idx)
             window_idx == Unwrap(Position(Windows(container), hwnd))
             rm == RemoveWindowByIdx(container, window_idx)
         IN  IF IsEmptyContainer(rm.c)
             THEN LET ws1 == WithElements(ws, RemoveAt(Elements(ws), container_idx))
                      ws2 == IF IsSome(Get(ws1.resize_dimensions, container_idx))
                             THEN [ws1 EXCEPT !.resize_dimensions = RemoveAt(@, container_idx)]
                             ELSE ws1
                  IN  R(focus_previous_container(ws2), "Ok")
             ELSE R(SetContainer(ws, container_idx, rm.c), "Ok")

remove_window(ws, hwnd) ==
    IF hwnd \in SeqSet(ws.floating_windows)
    THEN R([ws EXCEPT !.floating_windows = SelectSeq(@, LAMBDA w : w # hwnd)], "Ok")
    ELSE IF IsSome(ws.monocle_container)
            /\ IsSome(Position(Windows(Unwrap(ws.monocle_container)), hwnd))
    THEN LET window_idx == Unwrap(Position(Windows(Unwrap(ws.monocle_container)), hwnd))
             rm == RemoveWindowByIdx(Unwrap(ws.monocle_container), window_idx)
         IN  IF IsEmptyContainer(rm.c)
             THEN R([ws EXCEPT !.monocle_container = None,
                               !.monocle_container_restore_idx = None], "Ok")
             ELSE R([ws EXCEPT !.monocle_container = Some(rm.c)], "Ok")
    ELSE IF ws.maximized_window = Some(hwnd)
    THEN R([ws EXCEPT !.maximized_window = None,
                      !.maximized_window_restore_idx = None], "Ok")
    ELSE IF IsNone(container_idx_for_window(ws, hwnd))
    THEN R(ws, "Err")
    ELSE LET container_idx == Unwrap(container_idx_for_window(ws, hwnd))
             container == At(Elements(ws), container_idx)
             window_idx == Unwrap(Position(Windows(container), hwnd))
             rm == RemoveWindowByIdx(container, window_idx)
         IN  IF IsEmptyContainer(rm.c)
             THEN LET ws1 == WithElements(ws, RemoveAt(Elements(ws), container_idx))
                      ws2 == IF IsSome(Get(ws1.resize_dimensions, container_idx))
                             THEN [ws1 EXCEPT !.resize_dimensions = RemoveAt(@, container_idx)]
                             ELSE ws1
                  IN  R(focus_previous_container(ws2), "Ok")
             ELSE R(SetContainer(ws, container_idx, rm.c), "Ok")

move_window_to_container(ws, target_container_idx) ==
    LET focused_idx == focused_container_idx(ws)
    IN  IF IsNone(focused_container(ws)) THEN R(ws, "Err")
        ELSE
        LET rm == RemoveFocusedWindow(Unwrap(focused_container(ws)))
        IN  IF IsNone(rm.w) THEN R(ws, "Err")
            ELSE IF IsEmptyContainer(rm.c) /\ focused_idx >= Len(ws.resize_dimensions)
            THEN R(ws, "Panic")    \* Vec::remove out of bounds
            ELSE
            LET emptied == IsEmptyContainer(rm.c)
                ws1 == IF emptied
                       THEN [WithElements(ws, RemoveAt(Elements(ws), focused_idx))
                                EXCEPT !.resize_dimensions = RemoveAt(@, focused_idx)]
                       ELSE SetContainer(ws, focused_idx, rm.c)
                adjusted_target_container_index ==
                    IF emptied /\ focused_idx < target_container_idx
                    THEN target_container_idx - 1
                    ELSE target_container_idx
            IN  IF IsNone(Get(Elements(ws1), adjusted_target_container_index))
                THEN R(ws1, "Err")
                ELSE
                LET target_container == At(Elements(ws1), adjusted_target_container_index)
                    ws2 == SetContainer(ws1, adjusted_target_container_index,
                                        AddWindow(target_container, Unwrap(rm.w)))
                    ws3 == focus_container(ws2, adjusted_target_container_index)
                IN  IF IsNone(focused_container(ws3)) THEN R(ws3, "Err") ELSE R(ws3, "Ok")

\* returns the workspace: the method cannot fail
new_container_for_window(ws, window) ==
    LET next_idx == IF Len(Elements(ws)) = 0 THEN 0 ELSE focused_container_idx(ws) + 1
        container == AddWindow(ContainerDefault(0), window)
        ws1 == IF next_idx > Len(Elements(ws))
               THEN WithElements(ws, Append(Elements(ws), container))
               ELSE WithElements(ws, InsertAt(Elements(ws), next_idx, container))
        ws2 == IF next_idx > Len(ws1.resize_dimensions)
               THEN [ws1 EXCEPT !.resize_dimensions = Append(@, None)]
               ELSE [ws1 EXCEPT !.resize_dimensions = InsertAt(@, next_idx, None)]
    IN  focus_container(ws2, next_idx)

new_container_for_focused_window(ws) ==
    LET focused_idx == focused_container_idx(ws)
    IN  IF IsNone(focused_container(ws)) THEN R(ws, "Err")
        ELSE
        LET rm == RemoveFocusedWindow(Unwrap(focused_container(ws)))
        IN  IF IsNone(rm.w) THEN R(ws, "Err")
            ELSE IF IsEmptyContainer(rm.c) /\ focused_idx >= Len(ws.resize_dimensions)
            THEN R(ws, "Panic")    \* Vec::remove out of bounds
            ELSE
            LET ws1 == IF IsEmptyContainer(rm.c)
                       THEN [WithElements(ws, RemoveAt(Elements(ws), focused_idx))
                                EXCEPT !.resize_dimensions = RemoveAt(@, focused_idx)]
                       ELSE SetContainer(ws, focused_idx, rm.c)
            IN  R(new_container_for_window(ws1, Unwrap(rm.w)), "Ok")

\* foreground is the platform's answer: None when the query fails, else
\* Some(handle), handle 0 standing for a window this workspace does not hold.
\* -> (workspace, Option<Window>)
remove_focused_floating_window(ws, foreground) ==
    IF IsNone(foreground) THEN [ws |-> ws, w |-> None]
    ELSE LET idx == LastPosition(ws.floating_windows, Unwrap(foreground))
         IN  IF IsNone(idx) THEN [ws |-> ws, w |-> None]
             ELSE [ws |-> [ws EXCEPT !.floating_windows = RemoveAt(@, Unwrap(idx))],
                   w  |-> Some(At(ws.floating_windows, Unwrap(idx)))]

new_container_for_floating_window(ws, foreground) ==
    LET focused_idx == focused_container_idx(ws)
        rm == remove_focused_floating_window(ws, foreground)
    IN  IF IsNone(rm.w) THEN R(ws, "Err")
        ELSE IF focused_idx > Len(Elements(ws)) \/ focused_idx > Len(ws.resize_dimensions)
        THEN R(ws, "Panic")    \* VecDeque::insert / Vec::insert out of bounds
        ELSE R([WithElements(rm.ws, InsertAt(Elements(ws), focused_idx,
                                             AddWindow(ContainerDefault(0), Unwrap(rm.w))))
                   EXCEPT !.resize_dimensions = InsertAt(@, focused_idx, None)], "Ok")

new_floating_window(ws) ==
    IF IsSome(ws.maximized_window)
    THEN R([ws EXCEPT !.maximized_window = None,
                      !.maximized_window_restore_idx = None,
                      !.floating_windows = Append(@, Unwrap(ws.maximized_window))], "Ok")
    ELSE IF IsSome(ws.monocle_container)
    THEN LET rm == RemoveFocusedWindow(Unwrap(ws.monocle_container))
         IN  IF IsNone(rm.w) THEN R(ws, "Err")
             ELSE IF IsEmptyContainer(rm.c)
             THEN R([ws EXCEPT !.monocle_container = None,
                               !.monocle_container_restore_idx = None,
                               !.floating_windows = Append(@, Unwrap(rm.w))], "Ok")
             ELSE R([ws EXCEPT !.monocle_container = Some(rm.c),
                               !.floating_windows = Append(@, Unwrap(rm.w))], "Ok")
    ELSE LET focused_idx == focused_container_idx(ws)
         IN  IF IsNone(focused_container(ws)) THEN R(ws, "Err")
             ELSE
             LET rm == RemoveFocusedWindow(Unwrap(focused_container(ws)))
             IN  IF IsNone(rm.w) THEN R(ws, "Err")
                 ELSE IF IsEmptyContainer(rm.c) /\ focused_idx >= Len(ws.resize_dimensions)
                 THEN R(ws, "Panic")    \* Vec::remove out of bounds
                 ELSE
                 LET ws1 == IF IsEmptyContainer(rm.c)
                            THEN [WithElements(ws, RemoveAt(Elements(ws), focused_idx))
                                     EXCEPT !.resize_dimensions = RemoveAt(@, focused_idx)]
                            ELSE SetContainer(ws, focused_idx, rm.c)
                 IN  R([ws1 EXCEPT !.floating_windows = Append(@, Unwrap(rm.w))], "Ok")

\* new_monocle_container with the final focus_previous_container() left out
new_monocle_container_keeping_focus(ws) ==
    LET focused_idx == focused_container_idx(ws)
    IN  IF IsNone(Get(Elements(ws), focused_idx)) THEN R(ws, "Err")
        ELSE R([WithElements(ws, RemoveAt(Elements(ws), focused_idx))
                   EXCEPT !.monocle_container = Some(At(Elements(ws), focused_idx)),
                          !.monocle_container_restore_idx = Some(focused_idx)], "Ok")

new_monocle_container(ws) ==
    LET focused_idx == focused_container_idx(ws)
    IN  IF IsNone(Get(Elements(ws), focused_idx)) THEN R(ws, "Err")
        ELSE
        LET ws1 == [WithElements(ws, RemoveAt(Elements(ws), focused_idx))
                       EXCEPT !.monocle_container = Some(At(Elements(ws), focused_idx)),
                              !.monocle_container_restore_idx = Some(focused_idx)]
        IN  R(focus_previous_container(ws1), "Ok")

\* the id shared by the clones one VecDeque::resize(n, Container::default()) appends
PadId(ws, count) ==
    LET used == {At(Elements(ws), i).id : i \in 0..(Len(Elements(ws)) - 1)}
                \cup {c.id : c \in SeqSet(ws.monocle_container)}
    IN  IF count < 2 THEN 0
        ELSE CHOOSE k \in 1..(Cardinality(used) + 1) :
                 k \notin used /\ \A j \in 1..(k - 1) : j \in used

\* containers_mut().resize(restore_idx, Container::default())
PadTo(ws, restore_idx) ==
    WithElements(ws, ResizeTo(Elements(ws), restore_idx,
                              ContainerDefault(PadId(ws, restore_idx - Len(Elements(ws))))))

\* reintegrate_monocle_container with the final set_monocle_container(None) and
\* set_monocle_container_restore_idx(None) left out
reintegrate_monocle_container_keeping_slot(ws, overflow_checks) ==
    IF IsNone(ws.monocle_container_restore_idx) THEN R(ws, "Err")
    ELSE IF IsNone(ws.monocle_container) THEN R(ws, "Err")
    ELSE
    LET restore_idx == Unwrap(ws.monocle_container_restore_idx)
        container == Unwrap(ws.monocle_container)
        len == Len(Elements(ws))
    IN  IF len = 0 /\ overflow_checks THEN R(ws, "Panic")
        ELSE
        LET ws1 == IF len # 0 /\ restore_idx > len - 1 THEN PadTo(ws, restore_idx) ELSE ws
        IN  IF restore_idx > Len(Elements(ws1)) THEN R(ws, "Panic")
            ELSE
            LET ws2 == WithElements(ws1, InsertAt(Elements(ws1), restore_idx, container))
                ws3 == focus_container(ws2, restore_idx)
            IN  IF IsNone(focused_container(ws3)) THEN R(ws3, "Err") ELSE R(ws3, "Ok")

\* overflow_checks: whether the build traps `len() - 1` on an empty ring
\* (it wraps to usize::MAX otherwise)
reintegrate_monocle_container(ws, overflow_checks) ==
    IF IsNone(ws.monocle_container_restore_idx) THEN R(ws, "Err")
    ELSE IF IsNone(ws.monocle_container) THEN R(ws, "Err")
    ELSE
    LET restore_idx == Unwrap(ws.monocle_container_restore_idx)
        container == Unwrap(ws.monocle_container)
        len == Len(Elements(ws))
    IN  IF len = 0 /\ overflow_checks THEN R(ws, "Panic")
        ELSE
        LET ws1 == IF len # 0 /\ restore_idx > len - 1 THEN PadTo(ws, restore_idx) ELSE ws
        IN  IF restore_idx > Len(Elements(ws1)) THEN R(ws, "Panic")  \* VecDeque::insert
            ELSE
            LET ws2 == WithElements(ws1, InsertAt(Elements(ws1), restore_idx, container))
                ws3 == focus_container(ws2, restore_idx)
            IN  IF IsNone(focused_container(ws3)) THEN R(ws3, "Err")
                ELSE R([ws3 EXCEPT !.monocle_container = None,
                                   !.monocle_container_restore_idx = None], "Ok")

\* new_maximized_window recording the focused tiled index as restore index
\* for a monocle source too
new_maximized_window_with_tiled_index(ws, foreground) ==
    LET focused_idx == focused_container_idx(ws)
    IN  IF IsNone(foreground) THEN R(ws, "Err")
        ELSE IF IsSome(LastPosition(ws.floating_windows, Unwrap(foreground)))
        THEN LET idx == Unwrap(LastPosition(ws.floating_windows, Unwrap(foreground)))
             IN  R([ws EXCEPT !.floating_windows = RemoveAt(@, idx),
                              !.maximized_window = Some(At(ws.floating_windows, idx)),
                              !.maximized_window_restore_idx = Some(focused_idx)], "Ok")
        ELSE IF IsSome(ws.monocle_container)
        THEN LET monocle_restore_idx == ws.monocle_container_restore_idx
                 rm == RemoveFocusedWindow(Unwrap(ws.monocle_container))
             IN  IF IsNone(rm.w) THEN R(ws, "Err")
                 ELSE IF IsEmptyContainer(rm.c)
                 THEN R([ws EXCEPT !.monocle_container = None,
                                   !.monocle_container_restore_idx = None,
                                   !.maximized_window = rm.w,
                                   !.maximized_window_restore_idx = Some(focused_idx)], "Ok")
                 ELSE R([ws EXCEPT !.monocle_container = Some(rm.c),
                                   !.maximized_window = rm.w,
                                   !.maximized_window_restore_idx = Some(focused_idx)], "Ok")
        ELSE IF IsNone(focused_container(ws)) THEN R(ws, "Err")
        ELSE
        LET rm == RemoveFocusedWindow(Unwrap(focused_container(ws)))
        IN  IF IsNone(rm.w) THEN R(ws, "Err")
            ELSE
            LET ws1 == IF IsEmptyContainer(rm.c)
                       THEN LET w1 == WithElements(ws, RemoveAt(Elements(ws), focused_idx))
                            IN  IF IsSome(Get(w1.resize_dimensions, focused_idx))
                                THEN [w1 EXCEPT !.resize_dimensions = RemoveAt(@, focused_idx)]
                                ELSE w1
                       ELSE SetContainer(ws, focused_idx, rm.c)
                ws2 == [ws1 EXCEPT !.maximized_window = rm.w,
                                   !.maximized_window_restore_idx = Some(focused_idx)]
            IN  R(focus_previous_container(ws2), "Ok")

new_maximized_window(ws, foreground) ==
    LET focused_idx == focused_container_idx(ws)
    IN  IF IsNone(foreground) THEN R(ws, "Err")
        ELSE IF IsSome(LastPosition(ws.floating_windows, Unwrap(foreground)))
        THEN LET idx == Unwrap(LastPosition(ws.floating_windows, Unwrap(foreground)))
             IN  R([ws EXCEPT !.floating_windows = RemoveAt(@, idx),
                              !.maximized_window = Some(At(ws.floating_windows, idx)),
                              !.maximized_window_restore_idx = Some(focused_idx)], "Ok")
        ELSE IF IsSome(ws.monocle_container)
        THEN LET monocle_restore_idx == ws.monocle_container_restore_idx
                 rm == RemoveFocusedWindow(Unwrap(ws.monocle_container))
             IN  IF IsNone(rm.w) THEN R(ws, "Err")
                 ELSE IF IsEmptyContainer(rm.c)
                 THEN R([ws EXCEPT !.monocle_container = None,
                                   !.monocle_container_restore_idx = None,
                                   !.maximized_window = rm.w,
                                   !.maximized_window_restore_idx = monocle_restore_idx], "Ok")
                 ELSE R([ws EXCEPT !.monocle_container = Some(rm.c),
                                   !.maximized_window = rm.w,
                                   !.maximized_window_restore_idx = monocle_restore_idx], "Ok")
        ELSE IF IsNone(focused_container(ws)) THEN R(ws, "Err")
        ELSE
        LET rm == RemoveFocusedWindow(Unwrap(focused_container(ws)))
        IN  IF IsNone(rm.w) THEN R(ws, "Err")
            ELSE
            LET ws1 == IF IsEmptyContainer(rm.c)
                       THEN LET w1 == WithElements(ws, RemoveAt(Elements(ws), focused_idx))
                            IN  IF IsSome(Get(w1.resize_dimensions, focused_idx))
                                THEN [w1 EXCEPT !.resize_dimensions = RemoveAt(@, focused_idx)]
                                ELSE w1
                       ELSE SetContainer(ws, focused_idx, rm.c)
                ws2 == [ws1 EXCEPT !.maximized_window = rm.w,
                                   !.maximized_window_restore_idx = Some(focused_idx)]
            IN  R(focus_previous_container(ws2), "Ok")

\* reintegrate_maximized_window inserting the new container at the front of the
\* ring instead of at the restore index
reintegrate_maximized_window_at_front(ws) ==
    IF IsNone(ws.maximized_window_restore_idx) THEN R(ws, "Err")
    ELSE IF IsNone(ws.maximized_window) THEN R(ws, "Err")
    ELSE
    LET restore_idx == Unwrap(ws.maximized_window_restore_idx)
        window == Unwrap(ws.maximized_window)
        len == Len(Elements(ws))
        ws1 == IF len # 0 /\ restore_idx > len - 1 THEN PadTo(ws, restore_idx) ELSE ws
        container == [ContainerDefault(0) EXCEPT !.windows.elements = <<window>>]
        ws2 == WithElements(ws1, InsertAt(Elements(ws1), 0, container))
        ws3 == focus_container(ws2, restore_idx)
    IN  IF IsNone(focused_container(ws3)) THEN R(ws3, "Err")
        ELSE R([ws3 EXCEPT !.maximized_window = None,
                           !.maximized_window_restore_idx = None], "Ok")

reintegrate_maximized_window(ws) ==
    IF IsNone(ws.maximized_window_restore_idx) THEN R(ws, "Err")
    ELSE IF IsNone(ws.maximized_window) THEN R(ws, "Err")
    ELSE
    LET restore_idx == Unwrap(ws.maximized_window_restore_idx)
        window == Unwrap(ws.maximized_window)
        len == Len(Elements(ws))
        ws1 == IF len # 0 /\ restore_idx > len - 1 THEN PadTo(ws, restore_idx) ELSE ws
        \* Container::default() with the window pushed onto its deque
        container == [ContainerDefault(0) EXCEPT !.windows.elements = <<window>>]
    IN  IF restore_idx > Len(Elements(ws1)) THEN R(ws, "Panic")  \* VecDeque::insert
        ELSE
        LET ws2 == WithElements(ws1, InsertAt(Elements(ws1), restore_idx, container))
            ws3 == focus_container(ws2, restore_idx)
        IN  IF IsNone(focused_container(ws3)) THEN R(ws3, "Err")
            ELSE R([ws3 EXCEPT !.maximized_window = None,
                               !.maximized_window_restore_idx = None], "Ok")

\* layout.primary: for a custom layout, first_container_idx(primary_idx) of its
\* primary column, None when it has no primary column
LayoutDefault == [kind |-> "Default", primary |-> None]
LayoutCustom(primary) == [kind |-> "Custom", primary |-> primary]

promote_container(ws) ==
    IF Len(ws.resize_dimensions) = 0 THEN R(ws, "Panic")   \* Vec::remove(0)
    ELSE
    LET resize == At(ws.resize_dimensions, 0)
        ws1 == [ws EXCEPT !.resize_dimensions = RemoveAt(@, 0)]
        rm == remove_focused_container(ws1)
    IN  IF IsNone(rm.c) THEN R(rm.ws, "Err")
        ELSE IF ws.layout.kind = "Custom" /\ IsNone(ws.layout.primary) THEN R(rm.ws, "Err")
        ELSE
        LET primary_idx == IF ws.layout.kind = "Default" THEN 0 ELSE Unwrap(ws.layout.primary)
        IN  IF primary_idx > Len(Elements(rm.ws)) \/ primary_idx > Len(rm.ws.resize_dimensions)
            THEN R(ws, "Panic")    \* VecDeque::insert / Vec::insert out of bounds
            ELSE
            LET ws2 == [WithElements(rm.ws, InsertAt(Elements(rm.ws), primary_idx, Unwrap(rm.c)))
                           EXCEPT !.resize_dimensions = InsertAt(@, primary_idx, resize)]
            IN  R(focus_container(ws2, primary_idx), "Ok")

\* i and j in range
swap_containers(ws, i, j) ==
    R(focus_container([ws EXCEPT !.containers = RingSwap(@, i, j)], j), "Ok")

\* Workspace::visible_windows_mut(): the focused window of every tiled container
visible_windows(ws) ==
    [k \in 1..Len(Elements(ws)) |-> FocusedWindow(Elements(ws)[k])]

\* a command sent to the platform for one window
Cmd(cmd, hwnd) == [cmd |-> cmd, hwnd |-> hwnd]

\* the commands restore() sends before any focus request: restore for the
\* focused window of each tiled container, maximize for the maximized window,
\* restore for every monocle window and every floating window
RestoreCommands(ws) ==
    LET visible == SelectSeq(visible_windows(ws), IsSome)
        monocle == IF IsSome(ws.monocle_container)
                   THEN Windows(Unwrap(ws.monocle_container)) ELSE <<>>
    IN  [k \in 1..Len(visible) |-> Cmd("restore", Unwrap(visible[k]))]
        \o [k \in 1..Len(ws.maximized_window) |-> Cmd("maximize", ws.maximized_window[k])]
        \o [k \in 1..Len(monocle) |-> Cmd("restore", monocle[k])]
        \o [k \in 1..Len(ws.floating_windows) |-> Cmd("restore", ws.floating_windows[k])]

\* `if idx == i { to_focus = Option::from(*window) }`
RestoreToFocus(ws) ==
    IF IsSome(focused_container(ws)) THEN FocusedWindow(Unwrap(focused_container(ws)))
    ELSE None

\* restore with the focus request sent first and its error returned at once
restore_focusing_first(ws, focus_fails) ==
    LET to_focus == RestoreToFocus(ws)
    IN  IF IsSome(to_focus) /\ IsNone(ws.maximized_window)
        THEN IF focus_fails
             THEN [ws |-> ws, res |-> "Err", calls |-> <<Cmd("focus", Unwrap(to_focus))>>]
             ELSE [ws |-> ws, res |-> "Ok",
                   calls |-> <<Cmd("focus", Unwrap(to_focus))>> \o RestoreCommands(ws)]
        ELSE [ws |-> ws, res |-> "Ok", calls |-> RestoreCommands(ws)]

\* focus_fails: whether window.focus() returns an error
\* -> [ws, res, calls], calls being the platform commands in the order sent
restore(ws, focus_fails) ==
    LET to_focus == RestoreToFocus(ws)
    IN  IF IsSome(to_focus) /\ IsNone(ws.maximized_window)
        THEN [ws |-> ws, res |-> IF focus_fails THEN "Err" ELSE "Ok",
              calls |-> RestoreCommands(ws) \o <<Cmd("focus", Unwrap(to_focus))>>]
        ELSE [ws |-> ws, res |-> "Ok", calls |-> RestoreCommands(ws)]

RECURSIVE RemoveEach(_, _)
\* `for hwnd in &hwnds { self.remove_window(*hwnd)?; }`
RemoveEach(ws, hwnds) ==
    IF Len(hwnds) = 0 THEN R(ws, "Ok")
    ELSE LET r == remove_window(ws, Head(hwnds))
         IN  IF r.res # "Ok" THEN r ELSE RemoveEach(r.ws, Tail(hwnds))

\* containers_mut().retain(|c| !container_ids.contains(c.id())), container_ids
\* being the ids of the empty containers
RetainNonEmptyIds(ws) ==
    LET empty_ids == {c.id : c \in {d \in SeqSet(Elements(ws)) : IsEmptyContainer(d)}}
    IN  WithElements(ws, SelectSeq(Elements(ws),
            LAMBDA c : ~IsEmptyContainer(c) /\ (c.id = 0 \/ c.id \notin empty_ids)))

\* dead: the handles for which is_window() is false during the call
\* -> [ws, res, reaped, removed]
reap_orphans(ws, dead) ==
    LET visible == SelectSeq(visible_windows(ws), IsSome)
        hwnds == SelectSeq([k \in 1..Len(visible) |-> Unwrap(visible[k])],
                           LAMBDA h : h \in dead)
        floating_hwnds == SelectSeq(ws.floating_windows, LAMBDA h : h \in dead)
        r1 == RemoveEach(ws, hwnds)
    IN  IF r1.res # "Ok" THEN [ws |-> r1.ws, res |-> r1.res, reaped |-> 0, removed |-> 0]
        ELSE
        LET ws2 == [r1.ws EXCEPT !.floating_windows = SelectSeq(@, LAMBDA h : h \notin dead)]
            container_ids == SelectSeq(Elements(ws2), IsEmptyContainer)
        IN  [ws |-> RetainNonEmptyIds(ws2), res |-> "Ok",
             reaped |-> Len(hwnds) + Len(floating_hwnds),
             removed |-> Len(container_ids)]

----------------------------------------------------------------------------
(* Queries                                                                 *)

TiledWindows(ws) == UNION {SeqSet(Windows(c)) : c \in SeqSet(Elements(ws))}
MonocleWindows(ws) == UNION {SeqSet(Windows(c)) : c \in SeqSet(ws.monocle_container)}
MaximizedWindows(ws) == SeqSet(ws.maximized_window)
FloatingWindows(ws) == SeqSet(ws.floating_windows)

contains_window(ws, hwnd) ==
    \/ \E c \in SeqSet(Elements(ws)) : ContainerContainsWindow(c, hwnd)
    \/ ws.maximized_window = Some(hwnd)
    \/ \E c \in SeqSet(ws.monocle_container) : ContainerContainsWindow(c, hwnd)
    \/ \E w \in SeqSet(ws.floating_windows) : w = hwnd

\* tiled containers, the maximized window, the monocle container; the
\* floating windows are not searched
contains_managed_window(ws, hwnd) ==
    \/ \E c \in SeqSet(Elements(ws)) : ContainerContainsWindow(c, hwnd)
    \/ ws.maximized_window = Some(hwnd)
    \/ \E c \in SeqSet(ws.monocle_container) : ContainerContainsWindow(c, hwnd)

CycleDirections == {"Previous", "Next"}

\* CycleDirection::next_idx(idx, len): the next or previous index of a ring
\* of len elements, wrapping
next_idx(direction, idx, len) ==
    IF direction = "Next" THEN (idx + 1) % len ELSE (idx + len - 1) % len

\* new_idx_for_cycle_direction counting from index 0 instead of from the
\* focused index
new_idx_for_cycle_direction_from_front(ws, direction) ==
    IF Len(Elements(ws)) = 0 THEN None
    ELSE Some(next_idx(direction, 0, Len(Elements(ws))))

\* NonZeroUsize::new(len)? returns None on an empty ring
new_idx_for_cycle_direction(ws, direction) ==
    IF Len(Elements(ws)) = 0 THEN None
    ELSE Some(next_idx(direction, focused_container_idx(ws), Len(Elements(ws))))

----------------------------------------------------------------------------
(* The state machine: one action per public method.                        *)

vars == <<containers, monocle_container, monocle_container_restore_idx,
          maximized_window, maximized_window_restore_idx, floating_windows,
          resize_dimensions, layout, panicked>>

\* the Workspace the variables hold
WS == [containers |-> containers,
       monocle_container |-> monocle_container,
       monocle_container_restore_idx |-> monocle_container_restore_idx,
       maximized_window |-> maximized_window,
       maximized_window_restore_idx |-> maximized_window_restore_idx,
       floating_windows |-> floating_windows,
       resize_dimensions |-> resize_dimensions,
       layout |-> layout]

\* the handles the workspace holds, in any placement
Held(ws) == TiledWindows(ws) \cup MonocleWindows(ws) \cup MaximizedWindows(ws)
            \cup FloatingWindows(ws)

\* Workspace::default()
WorkspaceDefault ==
    [containers |-> RingDefault,
     monocle_container |-> None,
     monocle_container_restore_idx |-> None,
     maximized_window |-> None,
     maximized_window_restore_idx |-> None,
     floating_windows |-> <<>>,
     resize_dimensions |-> <<>>,
     layout |-> LayoutDefault]

Init ==
    /\ containers = WorkspaceDefault.containers
    /\ monocle_container = WorkspaceDefault.monocle_container
    /\ monocle_container_restore_idx = WorkspaceDefault.monocle_container_restore_idx
    /\ maximized_window = WorkspaceDefault.maximized_window
    /\ maximized_window_restore_idx = WorkspaceDefault.maximized_window_restore_idx
    /\ floating_windows = WorkspaceDefault.floating_windows
    /\ resize_dimensions = WorkspaceDefault.resize_dimensions
    /\ layout = WorkspaceDefault.layout
    /\ panicked = FALSE

\* a call returned r.  Ok or Err: the workspace is as the call left it.
\* Panic: the process is gone, and no further call is made.
ApplyUpTo(r, max_containers) ==
    /\ ~panicked
    /\ Len(r.ws.containers.elements) <= max_containers
    /\ Len(r.ws.resize_dimensions) <= max_containers
    /\ panicked' = (r.res = "Panic")
    /\ containers' = r.ws.containers
    /\ monocle_container' = r.ws.monocle_container
    /\ monocle_container_restore_idx' = r.ws.monocle_container_restore_idx
    /\ maximized_window' = r.ws.maximized_window
    /\ maximized_window_restore_idx' = r.ws.maximized_window_restore_idx
    /\ floating_windows' = r.ws.floating_windows
    /\ resize_dimensions' = r.ws.resize_dimensions
    /\ layout' = r.ws.layout

Apply(r) == ApplyUpTo(r, MaxContainers)

\* what the platform answers to foreground_window(): None when the query
\* fails, Some(0) for a window this workspace never held
Foregrounds == {None} \cup {Some(h) : h \in 0..MaxWindows}

\* the handle of the next window the platform reports: handles are opaque and
\* compared only for equality, so the least free one stands for any of them
FreshHwnds(ws) ==
    LET free == Hwnds \ Held(ws)
    IN  {h \in free : \A g \in free : h <= g}

\* the layouts set_layout is called with
Layouts == {LayoutDefault, LayoutCustom(None), LayoutCustom(Some(1))}

\* a container handed over by the caller (say, moved in from another
\* workspace): one window this workspace does not hold yet
AddContainer ==
    \E w \in FreshHwnds(WS) :
        Apply(add_container(WS, AddWindow(ContainerDefault(0), w)))

NewContainerForWindow ==
    \E w \in FreshHwnds(WS) : Apply(R(new_container_for_window(WS, w), "Ok"))

NewContainerForFocusedWindow ==
    \E r \in {new_container_for_focused_window(WS)} : Apply(r)

NewFloatingWindow ==
    \E r \in {new_floating_window(WS)} : Apply(r)

NewContainerForFloatingWindow ==
    \E fg \in Foregrounds : Apply(new_container_for_floating_window(WS, fg))

NewMonocleContainer ==
    \E r \in {new_monocle_container(WS)} : Apply(r)

ReintegrateMonocleContainer ==
    \E overflow_checks \in BOOLEAN : Apply(reintegrate_monocle_container(WS, overflow_checks))

NewMaximizedWindow ==
    \E fg \in Foregrounds : Apply(new_maximized_window(WS, fg))

ReintegrateMaximizedWindow ==
    \E r \in {reintegrate_maximized_window(WS)} : Apply(r)

MoveWindowToContainer ==
    \E t \in 0..(MaxContainers - 1) : Apply(move_window_to_container(WS, t))

PromoteContainer ==
    \E r \in {promote_container(WS)} : Apply(r)

RemoveWindow ==
    \E h \in Hwnds : Apply(remove_window(WS, h))

RemoveContainer ==
    \E idx \in 0..(MaxContainers - 1) : Apply(R(remove_container(WS, idx).ws, "Ok"))

RemoveFocusedContainer ==
    \E r \in {R(remove_focused_container(WS).ws, "Ok")} : Apply(r)

FocusContainer ==
    \E idx \in 0..(MaxContainers - 1) : Apply(R(focus_container(WS, idx), "Ok"))

SwapContainers ==
    \E i \in 0..(Len(containers.elements) - 1), j \in 0..(Len(containers.elements) - 1) :
        Apply(swap_containers(WS, i, j))

ReapOrphans ==
    \E dead \in SUBSET Hwnds : Apply(reap_orphans(WS, dead))

\* set_layout
SetLayout ==
    \E l \in Layouts : Apply(R([WS EXCEPT !.layout = l], "Ok"))

Restore ==
    \E focus_fails \in BOOLEAN : Apply(restore(WS, focus_fails))

Next ==
    \/ AddContainer
    \/ NewContainerForWindow
    \/ NewContainerForFocusedWindow
    \/ NewFloatingWindow
    \/ NewContainerForFloatingWindow
    \/ NewMonocleContainer
    \/ ReintegrateMonocleContainer
    \/ NewMaximizedWindow
    \/ ReintegrateMaximizedWindow
    \/ MoveWindowToContainer
    \/ PromoteContainer
    \/ RemoveWindow
    \/ RemoveContainer
    \/ RemoveFocusedContainer
    \/ FocusContainer
    \/ SwapContainers
    \/ ReapOrphans
    \/ SetLayout
    \/ Restore

Spec == Init /\ [][Next]_vars

----------------------------------------------------------------------------
(* Rings of up to MaxPaddedContainers containers, with the calls that take  *)
(* a container out at a high index, shrink the ring, and put it back:       *)
(* reintegrate_monocle_container then pads the ring with several clones of  *)
(* one Container::default().                                                *)

\* ApplyUpTo for these runs: the ring stays within MaxPaddedContainers and
\* every container within MaxPaddedWindows
PaddedApply(r) ==
    /\ ApplyUpTo(r, MaxPaddedContainers)
    /\ \A c \in SeqSet(r.ws.containers.elements) \cup SeqSet(r.ws.monocle_container) :
           Len(Windows(c)) <= MaxPaddedWindows

PaddedNewContainerForWindow ==
    \E w \in FreshHwnds(WS) :
        PaddedApply(R(new_container_for_window(WS, w), "Ok"))

PaddedNewMonocleContainer ==
    \E r \in {new_monocle_container(WS)} : PaddedApply(r)

PaddedReintegrateMonocleContainer ==
    \E overflow_checks \in BOOLEAN :
        PaddedApply(reintegrate_monocle_container(WS, overflow_checks))

PaddedMoveWindowToContainer ==
    \E t \in 0..(MaxPaddedContainers - 1) :
        PaddedApply(move_window_to_container(WS, t))

PaddedPromoteContainer ==
    \E r \in {promote_container(WS)} : PaddedApply(r)

PaddedReapOrphans ==
    \E dead \in SUBSET Hwnds : PaddedApply(reap_orphans(WS, dead))

PaddedNext ==
    \/ PaddedNewContainerForWindow
    \/ PaddedNewMonocleContainer
    \/ PaddedReintegrateMonocleContainer
    \/ PaddedMoveWindowToContainer
    \/ PaddedPromoteContainer
    \/ PaddedReapOrphans

PaddedSpec == Init /\ [][PaddedNext]_vars

----------------------------------------------------------------------------
(* Properties                                                              *)

Targets == 0..MaxContainers

\* how many placements hold hwnd: slots of tiled containers, slots of the
\* monocle container, the maximized slot, entries of the floating list
SlotsOf(c, hwnd) == {k \in 1..Len(Windows(c)) : Windows(c)[k] = hwnd}
PlacementCount(ws, hwnd) ==
    Cardinality(UNION {{<<i, k>> : k \in SlotsOf(Elements(ws)[i], hwnd)} :
                           i \in 1..Len(Elements(ws))})
    + Cardinality(UNION {SlotsOf(c, hwnd) : c \in SeqSet(ws.monocle_container)})
    + (IF ws.maximized_window = Some(hwnd) THEN 1 ELSE 0)
    + Cardinality({k \in 1..Len(ws.floating_windows) : ws.floating_windows[k] = hwnd})

\* the outcomes of every placement operation callable on ws, each with the
\* handles the call hands to the workspace
PlacementOutcomes(ws) ==
    {[r |-> add_container(ws, AddWindow(ContainerDefault(0), w)), handed |-> {w}] :
        w \in FreshHwnds(ws)}
    \cup {[r |-> R(new_container_for_window(ws, w), "Ok"), handed |-> {w}] :
        w \in FreshHwnds(ws)}
    \cup {[r |-> x, handed |-> {}] : x \in
            {new_container_for_focused_window(ws), new_floating_window(ws),
             new_monocle_container(ws), reintegrate_maximized_window(ws),
             promote_container(ws)}
            \cup {new_container_for_floating_window(ws, fg) : fg \in Foregrounds}
            \cup {new_maximized_window(ws, fg) : fg \in Foregrounds}
            \cup {reintegrate_monocle_container(ws, oc) : oc \in BOOLEAN}
            \cup {move_window_to_container(ws, t) : t \in Targets}}

\* C1 (partition): whatever placement operation is called next, and whether it
\* returns Ok or Err, afterwards every handle the workspace held or was
\* handed is in exactly one of the four placements, and no other handle is
\* in any: no window is dropped, none is held twice.
C1_Partition ==
    \A o \in PlacementOutcomes(WS) :
        o.r.res # "Panic" =>
            \A h \in Hwnds :
                PlacementCount(o.r.ws, h) = IF h \in Held(WS) \cup o.handed THEN 1 ELSE 0

\* C2 (no duplication): no handle is held in more than one placement, nor
\* twice in one, in any reachable state; and the same holds of the workspace
\* reintegrate_monocle_container, reintegrate_maximized_window and
\* new_container_for_focused_window leave when they return Ok.
NoDuplicate(ws) == \A h \in Hwnds : PlacementCount(ws, h) <= 1
C2_NoDuplication ==
    /\ NoDuplicate(WS)
    /\ \A r \in {reintegrate_maximized_window(WS), new_container_for_focused_window(WS)}
                 \cup {reintegrate_monocle_container(WS, oc) : oc \in BOOLEAN} :
            r.res = "Ok" =>
                /\ NoDuplicate(r.ws)
                /\ Held(r.ws) = Held(WS)

\* C2 witness: a maximized window and a non-empty monocle container are both
\* held, and reintegrating either succeeds and puts its windows in the ring.
C2_Witness ==
    /\ IsSome(maximized_window)
    /\ IsSome(monocle_container)
    /\ MonocleWindows(WS) # {}
    /\ Len(Elements(WS)) >= 1
    /\ reintegrate_maximized_window(WS).res = "Ok"
    /\ Unwrap(maximized_window) \in TiledWindows(reintegrate_maximized_window(WS).ws)
    /\ reintegrate_monocle_container(WS, TRUE).res = "Ok"
    /\ MonocleWindows(WS) \subseteq TiledWindows(reintegrate_monocle_container(WS, TRUE).ws)

\* C3 (no crash path): no call panics.
C3_NoPanic == ~panicked

\* C4 (resize alignment): resize_dimensions is as long as the tiled ring.
C4_ResizeAlignment == Len(resize_dimensions) = Len(Elements(WS))

\* C5 (no empty containers): no tiled container is empty, and the monocle
\* container, when set, is not empty.
C5_NoEmptyContainers ==
    /\ \A c \in SeqSet(Elements(WS)) : ~IsEmptyContainer(c)
    /\ \A c \in SeqSet(monocle_container) : ~IsEmptyContainer(c)

\* C6 (focus invariant): the tiled ring is empty or its focused index is
\* less than its length.
C6_FocusInvariant ==
    Len(Elements(WS)) = 0 \/ focused_container_idx(WS) < Len(Elements(WS))

\* C7 (atomic failure): when move_window_to_container returns an error the
\* workspace is exactly as it was before the call.
C7_MoveFailureAtomic ==
    \A t \in Targets :
        move_window_to_container(WS, t).res = "Err" =>
            move_window_to_container(WS, t).ws = WS

\* the hypothesis and the conclusion of the monocle round trip
MonocleRoundTripPre ==
    /\ Len(Elements(WS)) >= 1
    /\ focused_container_idx(WS) < Len(Elements(WS))
    /\ IsNone(monocle_container)
    /\ IsNone(monocle_container_restore_idx)
MonocleRoundTripPost(overflow_checks) ==
    LET r1 == new_monocle_container(WS)
        r2 == reintegrate_monocle_container(r1.ws, overflow_checks)
    IN  /\ r1.res = "Ok"
        /\ r2.res = "Ok"
        /\ r2.ws = WS
\* C8 (monocle round trip): with at least one tiled container, a focused
\* index in range and no monocle container, new_monocle_container followed by
\* reintegrate_monocle_container returns Ok twice and gives back the same
\* ring (containers, order, focus), the same resize_dimensions and an empty
\* monocle slot.
C8_MonocleRoundTrip ==
    MonocleRoundTripPre => \A oc \in BOOLEAN : MonocleRoundTripPost(oc)

\* the hypothesis and the conclusion of the maximize round trip
MaximizeRoundTripPre(fg) ==
    /\ IsSome(fg)
    /\ Unwrap(fg) \notin FloatingWindows(WS)
    /\ Len(Elements(WS)) >= 1
    /\ IsNone(monocle_container)
    /\ IsSome(focused_container(WS))
    /\ Len(Windows(Unwrap(focused_container(WS)))) = 1
MaximizeRoundTripPost(fg) ==
    LET f == focused_container_idx(WS)
        w == Windows(Unwrap(focused_container(WS)))[1]
        r1 == new_maximized_window(WS, fg)
        r2 == reintegrate_maximized_window(r1.ws)
    IN  /\ r1.res = "Ok"
        /\ r2.res = "Ok"
        /\ Len(Elements(r2.ws)) = Len(Elements(WS))
        /\ Windows(At(Elements(r2.ws), f)) = <<w>>
        /\ focused_container_idx(r2.ws) = f
        /\ \A i \in 0..(Len(Elements(WS)) - 1) :
               i # f => At(Elements(r2.ws), i) = At(Elements(WS), i)
        /\ IsNone(r2.ws.maximized_window)
        /\ IsNone(r2.ws.maximized_window_restore_idx)
MoveWindowPre(t) ==
    /\ IsSome(focused_container(WS))
    /\ IsSome(FocusedWindow(Unwrap(focused_container(WS))))
    /\ t < Len(Elements(WS))
    /\ t # focused_container_idx(WS)
MoveWindowPost(t) ==
    LET f == focused_container_idx(WS)
        n == Len(Elements(WS))
        src == Unwrap(focused_container(WS))
        w == Unwrap(FocusedWindow(src))
        r == move_window_to_container(WS, t)
        emptied == Len(Windows(src)) = 1
        d == IF emptied /\ f < t THEN t - 1 ELSE t
        dest == At(Elements(r.ws), d)
    IN  /\ r.res = "Ok"
        /\ Len(Elements(r.ws)) = IF emptied THEN n - 1 ELSE n
        /\ Len(r.ws.resize_dimensions) =
               IF emptied THEN Len(resize_dimensions) - 1 ELSE Len(resize_dimensions)
        /\ dest.id = At(Elements(WS), t).id
        /\ Windows(dest) = Append(Windows(At(Elements(WS), t)), w)
        /\ dest.windows.focused = Len(Windows(dest)) - 1
        /\ focused_container_idx(r.ws) = d
        /\ IF emptied
           THEN RemoveAt(Elements(r.ws), d)
                    = RemoveAt(RemoveAt(Elements(WS), Max(f, t)), Min(f, t))
           ELSE /\ Windows(At(Elements(r.ws), f)) = RemoveAt(Windows(src), src.windows.focused)
                /\ \A i \in 0..(n - 1) :
                       i \notin {f, t} => At(Elements(r.ws), i) = At(Elements(WS), i)
        /\ r.ws.monocle_container = monocle_container
        /\ r.ws.maximized_window = maximized_window
        /\ r.ws.floating_windows = floating_windows
\* C10 (move-window index adjustment): for a target t other than the focused
\* index f, both containers existing and the source having a focused window
\* w, move_window_to_container(t) returns Ok; a source left with windows
\* stays and the destination is at t; a source left empty is destroyed with
\* its resize slot and the destination is at t - 1 if f < t, else at t; w is
\* the last and focused window of the destination, the destination is
\* focused, and no other window changes container.
C10_MoveWindowIndexAdjustment ==
    \A t \in Targets : MoveWindowPre(t) => MoveWindowPost(t)

\* the hypothesis of promoting the already-primary container
PromotePrimaryPre ==
    /\ layout.kind = "Default"
    /\ IsSome(focused_container(WS))
    /\ focused_container_idx(WS) = 0
\* C11 (promote idempotence): with a built-in layout and the focused
\* container already at index 0, promote_container returns Ok and leaves the
\* order of the tiled containers unchanged with focus still on index 0, and a
\* second promote_container gives the same order and focus as the first.
C11_PromoteIdempotence ==
    PromotePrimaryPre =>
        LET r1 == promote_container(WS)
            r2 == promote_container(r1.ws)
        IN  /\ r1.res = "Ok"
            /\ Elements(r1.ws) = Elements(WS)
            /\ focused_container_idx(r1.ws) = 0
            /\ r2.res = "Ok"
            /\ Elements(r2.ws) = Elements(r1.ws)
            /\ focused_container_idx(r2.ws) = focused_container_idx(r1.ws)

\* C12 (atomic failure of promote): with a container focused and a custom
\* layout that has no primary column, promote_container returns an error and
\* the tiled ring (containers, order, focused index) and resize_dimensions
\* are as before the call.
C12_PromoteFailureAtomic ==
    (layout = LayoutCustom(None) /\ IsSome(focused_container(WS))) =>
        LET r == promote_container(WS)
        IN  /\ r.res = "Err"
            /\ r.ws.containers = WS.containers
            /\ r.ws.resize_dimensions = WS.resize_dimensions

\* the placement that holds hwnd
PlacementOf(ws, hwnd) ==
    IF hwnd \in TiledWindows(ws) THEN "tiled"
    ELSE IF hwnd \in MonocleWindows(ws) THEN "monocle"
    ELSE IF hwnd \in MaximizedWindows(ws) THEN "maximized"
    ELSE IF hwnd \in FloatingWindows(ws) THEN "floating"
    ELSE "none"

\* the indices of the tiled containers whose sole window is visible and fails
\* the probe
SoleStale(ws, dead) ==
    {i \in 0..(Len(Elements(ws)) - 1) :
        /\ Len(Windows(At(Elements(ws), i))) = 1
        /\ IsSome(FocusedWindow(At(Elements(ws), i)))
        /\ Unwrap(FocusedWindow(At(Elements(ws), i))) \in dead}

\* C13 (reap effect): after reap_orphans returns Ok, no floating window that
\* failed the probe is left in floating_windows; every tiled container whose
\* sole window was visible and failed the probe is gone from the ring, and
\* so is the resize slot at its index; every window that passed the probe is
\* in the placement it had; and the first count is the number of handles
\* removed.
C13_ReapEffect ==
    \A dead \in SUBSET Hwnds :
        LET r == reap_orphans(WS, dead)
        IN  r.res = "Ok" =>
                /\ FloatingWindows(r.ws) \cap dead = {}
                /\ \A i \in SoleStale(WS, dead) :
                       Windows(At(Elements(WS), i))[1] \notin TiledWindows(r.ws)
                /\ Len(r.ws.resize_dimensions) = Len(resize_dimensions)
                       - Cardinality({i \in SoleStale(WS, dead) : i < Len(resize_dimensions)})
                /\ \A h \in Held(WS) \ dead : PlacementOf(r.ws, h) = PlacementOf(WS, h)
                /\ r.reaped = Cardinality(Held(WS) \ Held(r.ws))

\* the handles reap_orphans probes: the visible tiled windows and the floating
\* windows
Probed(ws) ==
    {Unwrap(w) : w \in {v \in SeqSet(visible_windows(ws)) : IsSome(v)}}
    \cup FloatingWindows(ws)

\* C14 (reap idempotence): for every liveness predicate, a second
\* reap_orphans right after a first one that returned Ok leaves the
\* workspace as the first left it and returns (0, 0); and when no probed
\* window is stale a single call changes nothing and returns (0, 0).
C14_ReapIdempotent ==
    \A dead \in SUBSET Hwnds :
        LET r1 == reap_orphans(WS, dead)
            r2 == reap_orphans(r1.ws, dead)
        IN  r1.res = "Ok" =>
                /\ r2.res = "Ok"
                /\ r2.ws = r1.ws
                /\ r2.reaped = 0
                /\ r2.removed = 0
                /\ (Probed(WS) \cap dead = {}) =>
                       (r1.ws = WS /\ r1.reaped = 0 /\ r1.removed = 0)

\* C15 (reap counts): the second count reap_orphans returns is the number of
\* containers the call took out of the tiled ring, the length before minus
\* the length after.
C15_ReapRemovedCount ==
    \A dead \in SUBSET Hwnds :
        LET r == reap_orphans(WS, dead)
        IN  r.res = "Ok" => r.removed = Len(Elements(WS)) - Len(Elements(r.ws))

\* the focused tiled container holds exactly one window
FocusedHoldsOne(ws) ==
    /\ IsSome(focused_container(ws))
    /\ Len(Windows(Unwrap(focused_container(ws)))) = 1

\* the calls that take the focused container of ws, holding one window, out
\* of the ring, each with its outcome
FocusedRemovals(ws) ==
    {[op |-> "remove_focused_container", r |-> R(remove_focused_container(ws).ws, "Ok")],
     [op |-> "remove_window",
      r |-> remove_window(ws, Windows(Unwrap(focused_container(ws)))[1])]}
    \cup (IF IsNone(ws.maximized_window) /\ IsNone(ws.monocle_container)
          THEN {[op |-> "new_floating_window", r |-> new_floating_window(ws)]}
          ELSE {})
    \cup (IF IsNone(ws.monocle_container)
          THEN {[op |-> "new_maximized_window", r |-> new_maximized_window(ws, fg)] :
                   fg \in {g \in Foregrounds :
                              IsSome(g) /\ Unwrap(g) \notin FloatingWindows(ws)}}
          ELSE {})

\* the focused index after a call that removed the container focused at f
FocusAfterRemoval(ws, r) ==
    /\ Len(Elements(r.ws)) = Len(Elements(ws)) - 1
    /\ focused_container_idx(r.ws) = Max(focused_container_idx(ws) - 1, 0)
    /\ Len(Elements(r.ws)) = 0 \/ focused_container_idx(r.ws) < Len(Elements(r.ws))

\* C16 (focus after removing the focused container): when
\* remove_focused_container, or remove_window, new_floating_window or
\* new_maximized_window taking its last window, removes the tiled container
\* focused at index f and returns Ok, the focused index afterwards is
\* max(f - 1, 0) and is a valid index of the ring unless the ring is empty.
C16_FocusAfterRemovingFocused ==
    FocusedHoldsOne(WS) =>
        \A o \in FocusedRemovals(WS) : o.r.res = "Ok" => FocusAfterRemoval(WS, o.r)

\* C17 (removing a non-focused container): remove_container(idx) with idx
\* in range and different from the focused index, and remove_window(h) that
\* destroys a tiled container other than the focused one, leave the focused
\* index as it was.
C17_RemoveNonFocusedKeepsFocus ==
    /\ \A idx \in 0..(Len(Elements(WS)) - 1) :
           idx # focused_container_idx(WS) =>
               focused_container_idx(remove_container(WS, idx).ws)
                   = focused_container_idx(WS)
    /\ \A i \in 0..(Len(Elements(WS)) - 1) :
           (i # focused_container_idx(WS) /\ Len(Windows(At(Elements(WS), i))) = 1) =>
               LET r == remove_window(WS, Windows(At(Elements(WS), i))[1])
               IN  (r.res = "Ok" /\ Len(Elements(r.ws)) = Len(Elements(WS)) - 1) =>
                       focused_container_idx(r.ws) = focused_container_idx(WS)

\* C18 (managed-window query): contains_managed_window(h) is true exactly
\* when h is held in a tiled container, as the maximized window, in the
\* monocle container or in floating_windows.
C18_ContainsManagedWindow ==
    \A h \in Hwnds : contains_managed_window(WS, h) <=> PlacementCount(WS, h) >= 1

\* the three parts of C19: the query answers true exactly for the held
\* handles; every handle held or handed over is still found after any
\* placement call; and remove_window(h) returning Ok leaves h not found
ContainsWindowIffHeld ==
    \A h \in Hwnds : contains_window(WS, h) <=> PlacementCount(WS, h) >= 1
ContainsWindowKept ==
    \A o \in PlacementOutcomes(WS) :
        o.r.res # "Panic" =>
            \A h \in Held(WS) \cup o.handed : contains_window(o.r.ws, h)
ContainsWindowFalseAfterRemove ==
    \A h \in Hwnds :
        remove_window(WS, h).res = "Ok" => ~contains_window(remove_window(WS, h).ws, h)
\* C19 (window query): contains_window(h) is true exactly when h is held in
\* one of the four placements; it stays true for every window the workspace
\* was given until a removal takes it out; and it is false for h right
\* after remove_window(h) returns Ok.
C19_ContainsWindow ==
    /\ ContainsWindowIffHeld
    /\ ContainsWindowKept
    /\ ContainsWindowFalseAfterRemove

C21_TiledToMonocle ==
    LET r == new_monocle_container(WS)
        f == focused_container_idx(WS)
        n == Len(Elements(WS))
    IN  /\ IsSome(focused_container(WS)) =>
               /\ r.res = "Ok"
               /\ Len(Elements(r.ws)) = n - 1
               /\ \A i \in 0..(n - 1) :
                      /\ i < f => At(Elements(r.ws), i) = At(Elements(WS), i)
                      /\ i > f => At(Elements(r.ws), i - 1) = At(Elements(WS), i)
               /\ r.ws.monocle_container = focused_container(WS)
               /\ r.ws.monocle_container_restore_idx = Some(f)
               /\ focused_container_idx(r.ws) = Max(f - 1, 0)
               /\ r.ws.resize_dimensions = resize_dimensions
        /\ n = 0 => (r.res = "Err" /\ r.ws = WS)

\* C21 witness: three containers, the last one focused and holding two
\* windows, and a resize slot for each; new_monocle_container takes it out.
C21_Witness ==
    /\ Len(Elements(WS)) = 3
    /\ Len(resize_dimensions) = 3
    /\ focused_container_idx(WS) = 2
    /\ Len(Windows(At(Elements(WS), 2))) = 2
    /\ new_monocle_container(WS).res = "Ok"
    /\ focused_container_idx(new_monocle_container(WS).ws) = 1
    /\ Len(Elements(new_monocle_container(WS).ws)) = 2

\* where new_maximized_window takes its window from, given the platform's
\* foreground answer
MaximizeSource(ws, fg) ==
    IF Unwrap(fg) \in FloatingWindows(ws) THEN "floating"
    ELSE IF IsSome(ws.monocle_container) THEN "monocle"
    ELSE "tiled"

\* what new_maximized_window returning Ok as r leaves, by source
MaximizedFrom(ws, fg, r) ==
    LET f == focused_container_idx(ws)
        src == MaximizeSource(ws, fg)
    IN  IF src = "floating"
        THEN /\ r.ws.maximized_window = fg
             /\ Unwrap(fg) \notin FloatingWindows(r.ws)
             /\ r.ws.maximized_window_restore_idx = Some(f)
             /\ r.ws.containers = ws.containers
             /\ r.ws.monocle_container = ws.monocle_container
        ELSE IF src = "monocle"
        THEN LET c == Unwrap(ws.monocle_container)
                 w == FocusedWindow(c)
             IN  /\ IsSome(w)
                 /\ r.ws.maximized_window = w
                 /\ Unwrap(w) \notin MonocleWindows(r.ws)
                 /\ r.ws.maximized_window_restore_idx = ws.monocle_container_restore_idx
                 /\ MonocleWindows(r.ws) = MonocleWindows(ws) \ {Unwrap(w)}
                 /\ IF Len(Windows(c)) = 1
                    THEN /\ IsNone(r.ws.monocle_container)
                         /\ IsNone(r.ws.monocle_container_restore_idx)
                    ELSE /\ IsSome(r.ws.monocle_container)
                         /\ r.ws.monocle_container_restore_idx
                                = ws.monocle_container_restore_idx
                 /\ r.ws.containers = ws.containers
                 /\ r.ws.floating_windows = ws.floating_windows
        ELSE LET c == Unwrap(focused_container(ws))
                 w == FocusedWindow(c)
             IN  /\ IsSome(w)
                 /\ r.ws.maximized_window = w
                 /\ Unwrap(w) \notin TiledWindows(r.ws)
                 /\ r.ws.maximized_window_restore_idx = Some(f)
                 /\ TiledWindows(r.ws) = TiledWindows(ws) \ {Unwrap(w)}
                 /\ IF Len(Windows(c)) = 1
                    THEN Len(Elements(r.ws)) = Len(Elements(ws)) - 1
                    ELSE /\ Len(Elements(r.ws)) = Len(Elements(ws))
                         /\ SeqSet(Windows(At(Elements(r.ws), f)))
                                = SeqSet(Windows(c)) \ {Unwrap(w)}
                 /\ r.ws.floating_windows = ws.floating_windows

\* C22 (maximize and its restore index): new_maximized_window takes the
\* window from the floating list when a floating window has platform focus,
\* else from the monocle container when one is set, else from the focused
\* tiled container; when it returns Ok, maximized_window is that window,
\* the window is gone from its source, the restore index is the focused
\* tiled index for a tiled or floating source and the monocle restore index
\* for a monocle source, and a container or monocle container it emptied is
\* removed or cleared.
C22_MaximizeRestoreIndex ==
    \A fg \in Foregrounds :
        LET r == new_maximized_window(WS, fg)
        IN  r.res = "Ok" => (IsSome(fg) /\ MaximizedFrom(WS, fg, r))

\* C22 witness: a monocle container whose restore index differs from the
\* focused tiled index, and a foreground window that is not floating;
\* new_maximized_window takes the monocle container's window.
C22_Witness ==
    /\ IsSome(monocle_container)
    /\ IsSome(monocle_container_restore_idx)
    /\ Unwrap(monocle_container_restore_idx) # focused_container_idx(WS)
    /\ Len(Elements(WS)) >= 1
    /\ new_maximized_window(WS, Some(0)).res = "Ok"
    /\ MaximizeSource(WS, Some(0)) = "monocle"
    /\ new_maximized_window(WS, Some(0)).ws.maximized_window_restore_idx
           = monocle_container_restore_idx

\* C23 (reintegrating a maximized window): whenever maximized_window is set
\* with restore index r, reintegrate_maximized_window returns Ok whatever
\* the length of the tiled ring, the window is then the only window of a
\* container at index r, that container is focused, every container that
\* was in the ring is still there in the same relative order, and
\* maximized_window and its restore index are None.
C23_ReintegrateMaximizedStaleIndex ==
    (IsSome(maximized_window) /\ IsSome(maximized_window_restore_idx)) =>
        LET r == reintegrate_maximized_window(WS)
            idx == Unwrap(maximized_window_restore_idx)
            old == Elements(WS)
            new == Elements(r.ws)
        IN  /\ r.res = "Ok"
            /\ idx < Len(new)
            /\ Windows(At(new, idx)) = <<Unwrap(maximized_window)>>
            /\ focused_container_idx(r.ws) = idx
            /\ \E pos \in [1..Len(old) -> 1..Len(new)] :
                   /\ \A i \in 1..Len(old) : new[pos[i]] = old[i] /\ pos[i] # idx + 1
                   /\ \A i, j \in 1..Len(old) : i < j => pos[i] < pos[j]
            /\ IsNone(r.ws.maximized_window)
            /\ IsNone(r.ws.maximized_window_restore_idx)

\* C24 (tiled to own container): new_container_for_focused_window with the
\* container focused at index f holding at least two windows returns Ok;
\* the source container stays at f with its other windows in their order, a
\* new container holding exactly the window that was focused is at f + 1,
\* the ring is one longer, a None resize slot is at index f + 1 of a
\* resize_dimensions one longer, and the focused index is f + 1.
C24_NewContainerForFocusedWindow ==
    (IsSome(focused_container(WS)) /\ Len(Windows(Unwrap(focused_container(WS)))) >= 2) =>
        LET r == new_container_for_focused_window(WS)
            f == focused_container_idx(WS)
            c == Unwrap(focused_container(WS))
            w == FocusedWindow(c)
            old == Elements(WS)
            new == Elements(r.ws)
        IN  /\ r.res = "Ok"
            /\ IsSome(w)
            /\ Len(new) = Len(old) + 1
            /\ Windows(At(new, f)) = SelectSeq(Windows(c), LAMBDA x : x # Unwrap(w))
            /\ Windows(At(new, f + 1)) = <<Unwrap(w)>>
            /\ \A i \in 0..(Len(old) - 1) :
                   /\ i < f => At(new, i) = At(old, i)
                   /\ i > f => At(new, i + 1) = At(old, i)
            /\ Len(r.ws.resize_dimensions) = Len(resize_dimensions) + 1
            /\ f + 1 < Len(r.ws.resize_dimensions)
            /\ At(r.ws.resize_dimensions, f + 1) = None
            /\ focused_container_idx(r.ws) = f + 1

\* C25 (floating to tiled): new_container_for_floating_window, when the
\* foreground window w is a floating window, returns Ok, takes w out of
\* floating_windows, inserts a container holding exactly w at the focused
\* tiled index f (the containers from f on move up by one) and inserts a
\* None entry in resize_dimensions at f; when the foreground query fails or
\* names no floating window it returns an error and the ring,
\* resize_dimensions and floating_windows are unchanged.
C25_FloatingToTiled ==
    \A fg \in Foregrounds :
        LET r == new_container_for_floating_window(WS, fg)
            f == focused_container_idx(WS)
            old == Elements(WS)
            new == Elements(r.ws)
        IN  IF IsSome(fg) /\ Unwrap(fg) \in FloatingWindows(WS)
            THEN /\ r.res = "Ok"
                 /\ Unwrap(fg) \notin FloatingWindows(r.ws)
                 /\ FloatingWindows(r.ws) = FloatingWindows(WS) \ {Unwrap(fg)}
                 /\ Len(new) = Len(old) + 1
                 /\ f < Len(new)
                 /\ Windows(At(new, f)) = <<Unwrap(fg)>>
                 /\ \A i \in 0..(Len(old) - 1) :
                        /\ i < f => At(new, i) = At(old, i)
                        /\ i >= f => At(new, i + 1) = At(old, i)
                 /\ Len(r.ws.resize_dimensions) = Len(resize_dimensions) + 1
                 /\ f < Len(r.ws.resize_dimensions)
                 /\ At(r.ws.resize_dimensions, f) = None
            ELSE /\ r.res = "Err"
                 /\ r.ws.containers = WS.containers
                 /\ r.ws.resize_dimensions = resize_dimensions
                 /\ r.ws.floating_windows = floating_windows

\* C26 (promote and the resize slot): when promote_container returns Ok
\* with a built-in layout and a container focused at index f, that
\* container is at index 0, the others keep their relative order, focus is
\* on index 0, and resize_dimensions is as long as before with its entries,
\* the one from index f moved to the front, otherwise in their order.
C26_PromoteKeepsResizeSlot ==
    (layout.kind = "Default" /\ IsSome(focused_container(WS))) =>
        LET r == promote_container(WS)
            f == focused_container_idx(WS)
            old == Elements(WS)
            new == Elements(r.ws)
        IN  r.res = "Ok" =>
                /\ Len(new) = Len(old)
                /\ At(new, 0) = At(old, f)
                /\ \A i \in 0..(Len(old) - 1) :
                       /\ i < f => At(new, i + 1) = At(old, i)
                       /\ i > f => At(new, i) = At(old, i)
                /\ focused_container_idx(r.ws) = 0
                /\ Len(r.ws.resize_dimensions) = Len(resize_dimensions)

\* positions of the focus requests among the commands a call sent
FocusRequests(calls) == {k \in 1..Len(calls) : calls[k].cmd = "focus"}

\* every command of RestoreCommands(ws) is among the first upto commands sent
AllRestoredBefore(ws, calls, upto) ==
    \A c \in SeqSet(RestoreCommands(ws)) : \E j \in 1..upto : calls[j] = c

\* C27 (ordering in restore): whether or not the focus call fails, restore
\* sends the restore or maximize command for every visible tiled window,
\* the maximized window, every monocle window and every floating window;
\* a focus request comes after all of them, is the only one, and is for the
\* visible window of the focused tiled container; none is sent while a
\* maximized window is set; and the workspace is unchanged.
C27_RestoreOrdering ==
    \A focus_fails \in BOOLEAN :
        LET r == restore(WS, focus_fails)
        IN  /\ r.ws = WS
            /\ AllRestoredBefore(WS, r.calls, Len(r.calls))
            /\ \A k \in FocusRequests(r.calls) :
                   /\ AllRestoredBefore(WS, r.calls, k - 1)
                   /\ FocusRequests(r.calls) = {k}
                   /\ Some(r.calls[k].hwnd) = RestoreToFocus(WS)
            /\ IsSome(maximized_window) => FocusRequests(r.calls) = {}
            /\ r.res = "Err" => (focus_fails /\ FocusRequests(r.calls) # {})

\* C27 witness: two tiled containers and a floating window, no maximized
\* window; the focus call fails and every restore command was still sent.
C27_Witness ==
    /\ Len(Elements(WS)) = 2
    /\ IsSome(focused_container(WS))
    /\ Len(floating_windows) = 1
    /\ IsNone(maximized_window)
    /\ restore(WS, TRUE).res = "Err"
    /\ Len(restore(WS, TRUE).calls) = 4
    /\ restore(WS, TRUE).calls[4].cmd = "focus"

\* C28 (side slots and restore indices): monocle_container is set exactly
\* when monocle_container_restore_idx is, and maximized_window exactly when
\* maximized_window_restore_idx is.
C28_SideSlotConsistency ==
    /\ IsSome(monocle_container) <=> IsSome(monocle_container_restore_idx)
    /\ IsSome(maximized_window) <=> IsSome(maximized_window_restore_idx)

\* C28 witness: a monocle container with one window and a maximized window
\* are both set, each with its restore index, and remove_window of the
\* monocle window clears the monocle container and its restore index.
C28_Witness ==
    /\ IsSome(monocle_container)
    /\ IsSome(monocle_container_restore_idx)
    /\ IsSome(maximized_window)
    /\ IsSome(maximized_window_restore_idx)
    /\ Len(Windows(Unwrap(monocle_container))) = 1
    /\ LET r == remove_window(WS, Windows(Unwrap(monocle_container))[1])
       IN  /\ r.res = "Ok"
           /\ IsNone(r.ws.monocle_container)
           /\ IsNone(r.ws.monocle_container_restore_idx)

====
